---- MODULE Spec2Model ----
(***************************************************************************)
(* Trust chain of signed identity tokens (package tokens, standard.go).   *)
(*                                                                         *)
(* Go strings are sequences of one-character strings, []byte values are   *)
(* sequences of numbers 0..255.  A claims value is a record of the fields *)
(* of StandardClaims that the trust chain reads or writes.                *)
(***************************************************************************)
EXTENDS Integers, Sequences, FiniteSets, TLC

\* ------------------------------------------------------------------ bounds

\* Length in bytes of a public key in the model (ed25519.PublicKeySize scaled down).
KeySize == 2

\* Length in characters of a time-ordered identifier in the model.
KsuidLen == 2

\* Longest TrustChainSignature a mutator may build in the model.
MaxTcsLen == 256

\* ----------------------------------------------------------------- strings

EmptyStr == << >>

HexDigits == <<"0", "1", "2", "3", "4", "5", "6", "7",
               "8", "9", "a", "b", "c", "d", "e", "f">>

UpperHexDigits == <<"0", "1", "2", "3", "4", "5", "6", "7",
                    "8", "9", "A", "B", "C", "D", "E", "F">>

\* The byte of a character ([]byte(string)), for the characters the model uses.
Ascii(ch) ==
    CASE ch = "!" -> 33  [] ch = "-" -> 45  [] ch = "." -> 46
      [] ch = "0" -> 48  [] ch = "1" -> 49  [] ch = "2" -> 50  [] ch = "3" -> 51
      [] ch = "4" -> 52  [] ch = "5" -> 53  [] ch = "6" -> 54  [] ch = "7" -> 55
      [] ch = "8" -> 56  [] ch = "9" -> 57
      [] ch = "A" -> 65  [] ch = "B" -> 66  [] ch = "C" -> 67  [] ch = "D" -> 68
      [] ch = "E" -> 69  [] ch = "F" -> 70  [] ch = "I" -> 73  [] ch = "X" -> 88
      [] ch = "a" -> 97  [] ch = "b" -> 98  [] ch = "c" -> 99  [] ch = "d" -> 100
      [] ch = "e" -> 101 [] ch = "f" -> 102 [] ch = "o" -> 111 [] ch = "x" -> 120
      [] ch = "y" -> 121

\* []byte(s)
Bytes(s) == [i \in 1..Len(s) |-> Ascii(s[i])]

\* strings.HasPrefix
HasPrefix(s, p) == Len(s) >= Len(p) /\ SubSeq(s, 1, Len(p)) = p

\* strings.TrimPrefix
TrimPrefix(s, p) == IF HasPrefix(s, p) THEN SubSeq(s, Len(p) + 1, Len(s)) ELSE s

\* strings.Split(s, "."): the parts between the dots, one part for a string
\* without a dot (the empty string included).
RECURSIVE SplitFrom(_, _)
SplitFrom(s, from) ==
    LET dots == {i \in from..Len(s) : s[i] = "."}
    IN  IF dots = {} THEN <<SubSeq(s, from, Len(s))>>
        ELSE LET d == CHOOSE i \in dots : \A j \in dots : i <= j
             IN  <<SubSeq(s, from, d - 1)>> \o SplitFrom(s, d + 1)

Split(s) == SplitFrom(s, 1)

\* fmt.Sprintf("%s.%s", a, b)
Dotted(a, b) == a \o <<".">> \o b

\* hex.EncodeToString: two lowercase digits per byte.
HexEncode(b) ==
    [i \in 1..(2 * Len(b)) |->
        IF i % 2 = 1 THEN HexDigits[(b[(i + 1) \div 2] \div 16) + 1]
        ELSE HexDigits[(b[i \div 2] % 16) + 1]]

IsHexDigit(ch) ==
    \E i \in 1..16 : HexDigits[i] = ch \/ UpperHexDigits[i] = ch

HexValue(ch) ==
    CHOOSE v \in 0..15 : HexDigits[v + 1] = ch \/ UpperHexDigits[v + 1] = ch

\* hex.DecodeString fails on an odd length and on any character that is no
\* hexadecimal digit of either case.
HexDecodeOk(s) == Len(s) % 2 = 0 /\ \A i \in 1..Len(s) : IsHexDigit(s[i])

HexDecode(s) ==
    [i \in 1..(Len(s) \div 2) |-> 16 * HexValue(s[2 * i - 1]) + HexValue(s[2 * i])]

\* -------------------------------------------------------------------- keys

\* The key pairs of the model: the organization issuer, the login handler, and a
\* pair that belongs to neither.  "user" is the key pair of the end client.
KeyPairs == {"root", "handler", "other", "user", "client"}

KeyTag(k) ==
    CASE k = "root" -> 10 [] k = "handler" -> 11 [] k = "other" -> 12 [] k = "user" -> 13
      [] k = "client" -> 14

\* The public key of a pair, KeySize bytes.
Pub(k) == [i \in 1..KeySize |-> 16 * KeyTag(k) + i]

NoErr == "nil"

\* A nil ed25519.PublicKey.
NilKey == << >>

\* A signature of msg made with the private key of pair k.  The primitive is
\* deterministic and unforgeable: the signature names the pair and the message.
Ed25519Sign(k, msg) == <<KeyTag(k)>> \o msg

\* iu.Ed24419Verify(pk, msg, sig): (ok, err).  A key that is not of the size of a
\* public key is an error, any other failure is a plain false.
Ed24419Verify(pk, msg, sig) ==
    IF Len(pk) # KeySize
    THEN [ok |-> FALSE, err |-> "invalid public key length"]
    ELSE [ok  |-> \E k \in KeyPairs : Pub(k) = pk /\ sig = Ed25519Sign(k, msg),
          err |-> NoErr]

\* ------------------------------------------------------------- identifiers

\* The alphabet of an identifier, in the order of the digits' values.
Base62 == <<"0", "1", "2", "3", "4", "5", "6", "7", "8", "9",
            "A", "B", "C", "D", "E", "F", "I", "X",
            "a", "b", "c", "d", "e", "f", "o", "x", "y">>

\* ksuid.Parse succeeds on a string of the identifier's length and alphabet.
KsuidValid(id) ==
    Len(id) = KsuidLen /\ \A i \in 1..Len(id) : \E j \in 1..Len(Base62) : Base62[j] = id[i]

\* The creation time embedded in a valid identifier: the value of its leading digit.
KsuidTime(id) == (CHOOSE j \in 1..Len(Base62) : Base62[j] = id[1]) - 1

\* ksuid.NewRandomWithTime(t), for 0 <= t <= 9
KsuidAt(t) == [i \in 1..KsuidLen |-> IF i = 1 THEN Base62[t + 1] ELSE "0"]

\* ------------------------------------------------------------------ claims

\* A nil *jwt.NumericDate; 0 is the zero time, a positive number a set time.
NilDate == -1

OrgIssuerPrefix == <<"I", "-">>

ChainIssuerPrefix == <<"C", "-">>

\* StandardClaims (with the embedded jwt.RegisteredClaims fields it uses).
Claims(id, pubk, iat, exp) ==
    [Issuer              |-> EmptyStr,
     PublicKey           |-> pubk,
     TrustChainSignature |-> EmptyStr,
     ID                  |-> id,
     IssuedAt            |-> iat,
     ExpiresAt           |-> exp,
     IssuerExpiresAt     |-> NilDate]

\* --------------------------------------------------------------- operations

\* OrgIssuerChainData: the data the org issuer signs, (dat, err).
OrgIssuerChainData(c) ==
    IF c.ID = EmptyStr THEN [dat |-> EmptyStr, err |-> "no token id set"]
    ELSE IF c.PublicKey = EmptyStr THEN [dat |-> EmptyStr, err |-> "no public key set"]
    ELSE [dat |-> Dotted(c.ID, c.PublicKey), err |-> NoErr]

\* IsChainedIssuer that stops at the shape whatever verify is.
IsChainedIssuerShapeOnly(c, verify) ==
    IF Len(c.TrustChainSignature) = 0 THEN FALSE
    ELSE HasPrefix(c.Issuer, OrgIssuerPrefix)

\* IsChainedIssuer(verify)
IsChainedIssuer(c, verify) ==
    IF Len(c.TrustChainSignature) = 0 THEN FALSE
    ELSE IF ~HasPrefix(c.Issuer, OrgIssuerPrefix) THEN FALSE
    ELSE IF ~verify THEN TRUE
    ELSE IF OrgIssuerChainData(c).err # NoErr THEN FALSE
    ELSE IF ~HexDecodeOk(TrimPrefix(c.Issuer, OrgIssuerPrefix)) THEN FALSE
    ELSE IF ~HexDecodeOk(c.TrustChainSignature) THEN FALSE
    ELSE Ed24419Verify(HexDecode(TrimPrefix(c.Issuer, OrgIssuerPrefix)),
                       Bytes(OrgIssuerChainData(c).dat),
                       HexDecode(c.TrustChainSignature)).ok

\* SetOrgIssuer(pk)
SetOrgIssuer(c, pk) == [c EXCEPT !.Issuer = OrgIssuerPrefix \o HexEncode(pk)]

\* SetChainIssuer(ci): the claims after the call and the error it returns.
SetChainIssuer(c, ci) ==
    IF ci.ID = EmptyStr THEN [c |-> c, err |-> "id not set"]
    ELSE IF ci.PublicKey = EmptyStr THEN [c |-> c, err |-> "public key not set"]
    ELSE [c   |-> [c EXCEPT !.Issuer = ChainIssuerPrefix \o Dotted(ci.ID, ci.PublicKey),
                            !.IssuerExpiresAt = ci.ExpiresAt],
          err |-> NoErr]

\* ChainIssuerData without the check of the number of parts of the issuer.
ChainIssuerDataAnyParts(c, chainSig) ==
    IF c.ID = EmptyStr THEN [dat |-> EmptyStr, err |-> "id not set"]
    ELSE IF c.Issuer = EmptyStr THEN [dat |-> EmptyStr, err |-> "issuer not set"]
    ELSE IF ~HasPrefix(c.Issuer, ChainIssuerPrefix)
         THEN [dat |-> EmptyStr, err |-> "invalid issuer prefix"]
    ELSE [dat |-> Dotted(c.ID, chainSig), err |-> NoErr]

\* ChainIssuerData(chainSig): the data the chain issuer signs, (dat, err).
ChainIssuerData(c, chainSig) ==
    IF c.ID = EmptyStr THEN [dat |-> EmptyStr, err |-> "id not set"]
    ELSE IF c.Issuer = EmptyStr THEN [dat |-> EmptyStr, err |-> "issuer not set"]
    ELSE IF ~HasPrefix(c.Issuer, ChainIssuerPrefix)
         THEN [dat |-> EmptyStr, err |-> "invalid issuer prefix"]
    ELSE IF Len(Split(TrimPrefix(c.Issuer, ChainIssuerPrefix))) # 2
         THEN [dat |-> EmptyStr, err |-> "invalid issuer data"]
    ELSE [dat |-> Dotted(c.ID, chainSig), err |-> NoErr]

\* SetChainUserTrustSignature(h, sig)
SetChainUserTrustSignature(c, h, sig) ==
    [c EXCEPT !.TrustChainSignature = Dotted(h.TrustChainSignature, HexEncode(sig))]

\* SetChainIssuerTrustSignature(sig)
SetChainIssuerTrustSignature(c, sig) ==
    [c EXCEPT !.TrustChainSignature = HexEncode(sig)]

\* The first four checks of IsSignedByIssuer: the error of the first that fails.
Preconditions(c) ==
    IF c.Issuer = EmptyStr THEN "no issuer set"
    ELSE IF c.PublicKey = EmptyStr THEN "no public key set"
    ELSE IF c.TrustChainSignature = EmptyStr THEN "no trust chain signature set"
    ELSE IF c.ID = EmptyStr THEN "id not set"
    ELSE NoErr

\* OrgIssuerBranch with a failed verification reported as an error.
OrgIssuerBranchStrict(c, pk) ==
    IF c.Issuer # OrgIssuerPrefix \o HexEncode(pk)
    THEN [ok |-> FALSE, err |-> "public keys do not match"]
    ELSE IF ~HexDecodeOk(c.TrustChainSignature)
    THEN [ok |-> FALSE, err |-> "invalid trust chain signature: encoding/hex"]
    ELSE IF OrgIssuerChainData(c).err # NoErr
    THEN [ok |-> FALSE, err |-> OrgIssuerChainData(c).err]
    ELSE IF Ed24419Verify(pk, Bytes(OrgIssuerChainData(c).dat),
                          HexDecode(c.TrustChainSignature)).ok
    THEN [ok |-> TRUE, err |-> NoErr]
    ELSE [ok |-> FALSE, err |-> "invalid chain signature"]

\* OrgIssuerBranch without the comparison of Issuer with the anchor key.
OrgIssuerBranchAnyAnchor(c, pk) ==
    IF ~HexDecodeOk(c.TrustChainSignature)
    THEN [ok |-> FALSE, err |-> "invalid trust chain signature: encoding/hex"]
    ELSE IF OrgIssuerChainData(c).err # NoErr
    THEN [ok |-> FALSE, err |-> OrgIssuerChainData(c).err]
    ELSE Ed24419Verify(pk, Bytes(OrgIssuerChainData(c).dat),
                       HexDecode(c.TrustChainSignature))

\* IsSignedByIssuer, case strings.HasPrefix(c.Issuer, OrgIssuerPrefix)
OrgIssuerBranch(c, pk) ==
    IF c.Issuer # OrgIssuerPrefix \o HexEncode(pk)
    THEN [ok |-> FALSE, err |-> "public keys do not match"]
    ELSE IF ~HexDecodeOk(c.TrustChainSignature)
    THEN [ok |-> FALSE, err |-> "invalid trust chain signature: encoding/hex"]
    ELSE IF OrgIssuerChainData(c).err # NoErr
    THEN [ok |-> FALSE, err |-> OrgIssuerChainData(c).err]
    ELSE Ed24419Verify(pk, Bytes(OrgIssuerChainData(c).dat),
                       HexDecode(c.TrustChainSignature))

\* ChainIssuerParse taking the first two parts of a TrustChainSignature of two or
\* more parts.
ChainIssuerParseAnyDepth(c) ==
    LET iparts == Split(TrimPrefix(c.Issuer, ChainIssuerPrefix))
        parts  == Split(c.TrustChainSignature)
    IN  IF Len(iparts) # 2 THEN "invalid issuer content"
        ELSE IF Len(iparts[1]) = 0 THEN "invalid id in issuer"
        ELSE IF Len(iparts[2]) = 0 THEN "invalid public key in issuer"
        ELSE IF ~HexDecodeOk(iparts[2]) THEN "invalid public key in issuer data"
        ELSE IF Len(parts) < 2 THEN "invalid trust chain signature"
        ELSE IF Len(parts[1]) = 0 \/ Len(parts[2]) = 0 THEN "invalid trust chain signature"
        ELSE IF ~HexDecodeOk(parts[2])
        THEN "invalid signature in chain signature: encoding/hex"
        ELSE NoErr

\* The chain-issuer branch up to the decoding of the signature: the error of the
\* first step that fails on Issuer or TrustChainSignature.
ChainIssuerParse(c) ==
    LET iparts == Split(TrimPrefix(c.Issuer, ChainIssuerPrefix))
        parts  == Split(c.TrustChainSignature)
    IN  IF Len(iparts) # 2 THEN "invalid issuer content"
        ELSE IF Len(iparts[1]) = 0 THEN "invalid id in issuer"
        ELSE IF Len(iparts[2]) = 0 THEN "invalid public key in issuer"
        ELSE IF ~HexDecodeOk(iparts[2]) THEN "invalid public key in issuer data"
        ELSE IF Len(parts) # 2 THEN "invalid trust chain signature"
        ELSE IF Len(parts[1]) = 0 \/ Len(parts[2]) = 0 THEN "invalid trust chain signature"
        ELSE IF ~HexDecodeOk(parts[2])
        THEN "invalid signature in chain signature: encoding/hex"
        ELSE NoErr

\* hPubk: the creator's key decoded from Issuer.
CreatorKey(c) == HexDecode(Split(TrimPrefix(c.Issuer, ChainIssuerPrefix))[2])

\* The handler's signature is checked with the anchor key instead of hPubk.
ChainVerifyKeyAnchor(c, pk) == pk

\* The key the chain-issuer branch verifies with: hPubk, not the caller's pk.
ChainVerifyKey(c, pk) == CreatorKey(c)

\* The verification of the chain-issuer branch: (ok, err) of Ed24419Verify over
\* ID "." parentChainSignature.
ChainVerify(c, pk) ==
    Ed24419Verify(ChainVerifyKey(c, pk),
                  Bytes(Dotted(c.ID, Split(c.TrustChainSignature)[1])),
                  HexDecode(Split(c.TrustChainSignature)[2]))

\* ChainIssuerBranch with a failed verification returned as a plain false.
ChainIssuerBranchSilent(c, pk) ==
    IF ChainIssuerParse(c) # NoErr THEN [ok |-> FALSE, err |-> ChainIssuerParse(c)]
    ELSE IF ChainVerify(c, pk).err # NoErr
    THEN [ok |-> FALSE, err |-> "chain signature validation failed"]
    ELSE [ok |-> ChainVerify(c, pk).ok, err |-> NoErr]

\* IsSignedByIssuer, case strings.HasPrefix(c.Issuer, ChainIssuerPrefix)
ChainIssuerBranch(c, pk) ==
    IF ChainIssuerParse(c) # NoErr THEN [ok |-> FALSE, err |-> ChainIssuerParse(c)]
    ELSE IF ChainVerify(c, pk).err # NoErr
    THEN [ok |-> FALSE, err |-> "chain signature validation failed"]
    ELSE IF ~ChainVerify(c, pk).ok
    THEN [ok |-> FALSE, err |-> "invalid chain signature"]
    ELSE [ok |-> TRUE, err |-> NoErr]

\* IsSignedByIssuer(pk): (bool, error)
IsSignedByIssuer(c, pk) ==
    IF Preconditions(c) # NoErr THEN [ok |-> FALSE, err |-> Preconditions(c)]
    ELSE IF HasPrefix(c.Issuer, OrgIssuerPrefix) THEN OrgIssuerBranch(c, pk)
    ELSE IF HasPrefix(c.Issuer, ChainIssuerPrefix) THEN ChainIssuerBranch(c, pk)
    ELSE [ok |-> FALSE, err |-> "unsupported issuer format"]

\* -------------------------------------------------------------------- state

VARIABLES
    tok,    \* the claims values: tok["handler"] and tok["user"]
    ret     \* the last call made on a claims value and what it returned

vars == <<tok, ret>>

Tokens == {"handler", "user"}

\* The anchor keys a caller passes to IsSignedByIssuer.
AnchorKeys == {NilKey, Pub("root"), Pub("handler"), Pub("other")}

\* The result a caller of IsSignedByIssuer receives.  The function returns
\* (bool, error): it hands no signer key back, so key is always NilKey.
Returned(op, t, pk, verify, arg, ok, err, dat) ==
    [op |-> op, t |-> t, pk |-> pk, verify |-> verify, arg |-> arg,
     ok |-> ok, key |-> NilKey, err |-> err, dat |-> dat]

NoRet == Returned("none", "none", NilKey, FALSE, EmptyStr, FALSE, NoErr, EmptyStr)

\* NewClientIDClaims: an identifier made at the issue time, the subject's key.
NewClientIDClaims(k, iat, exp) == Claims(KsuidAt(iat), HexEncode(Pub(k)), iat, exp)

\* A signature over nothing the protocol signs ([]byte("invalid sig") in the tests).
InvalidSig == <<0>>

\* The handler as the org issuer issues it: SetOrgIssuer(rootPub), then the root's
\* signature over OrgIssuerChainData() as its TrustChainSignature.
IssuedHandler ==
    LET h == SetOrgIssuer(NewClientIDClaims("handler", 1, 3), Pub("root"))
    IN  SetChainIssuerTrustSignature(h,
            Ed25519Sign("root", Bytes(OrgIssuerChainData(h).dat)))

\* ------------------------------------------------------------------- calls

CallIsSignedByIssuer(t, pk) ==
    /\ ret' = LET r == IsSignedByIssuer(tok[t], pk)
              IN  Returned("IsSignedByIssuer", t, pk, FALSE, EmptyStr, r.ok, r.err, EmptyStr)
    /\ UNCHANGED tok

CallIsChainedIssuer(t, verify) ==
    /\ ret' = Returned("IsChainedIssuer", t, NilKey, verify, EmptyStr,
                       IsChainedIssuer(tok[t], verify), NoErr, EmptyStr)
    /\ UNCHANGED tok

CallChainIssuerData(t, chainSig) ==
    /\ ret' = LET r == ChainIssuerData(tok[t], chainSig)
              IN  Returned("ChainIssuerData", t, NilKey, FALSE, chainSig,
                           r.err = NoErr, r.err, r.dat)
    /\ UNCHANGED tok

CallOrgIssuerChainData(t) ==
    /\ ret' = LET r == OrgIssuerChainData(tok[t])
              IN  Returned("OrgIssuerChainData", t, NilKey, FALSE, EmptyStr,
                           r.err = NoErr, r.err, r.dat)
    /\ UNCHANGED tok

\* ---------------------------------------------------------------- issuance

\* The org issuer k stamps token t.
DoSetOrgIssuer(t, k) ==
    /\ tok' = [tok EXCEPT ![t] = SetOrgIssuer(tok[t], Pub(k))]
    /\ ret' = NoRet

\* The chain issuer p stamps token t; the call's error is what the caller sees.
DoSetChainIssuer(t, p) ==
    /\ tok' = [tok EXCEPT ![t] = SetChainIssuer(tok[t], tok[p]).c]
    /\ ret' = Returned("SetChainIssuer", t, NilKey, FALSE, EmptyStr,
                       SetChainIssuer(tok[t], tok[p]).err = NoErr,
                       SetChainIssuer(tok[t], tok[p]).err, EmptyStr)

\* The signatures an org issuer may store on token c: one of a key pair over
\* OrgIssuerChainData(), or bytes that are nobody's signature.
OrgSignatures(c) ==
    {InvalidSig} \cup
    (IF OrgIssuerChainData(c).err # NoErr THEN {}
     ELSE {Ed25519Sign(k, Bytes(OrgIssuerChainData(c).dat)) : k \in {"root", "other"}})

DoSetChainIssuerTrustSignature(t, sig) ==
    /\ tok' = [tok EXCEPT ![t] = SetChainIssuerTrustSignature(tok[t], sig)]
    /\ ret' = NoRet

\* The signatures a chain issuer h may store on token c: one of a key pair over
\* ChainIssuerData(h.TrustChainSignature), or bytes that are nobody's signature.
ChainSignatures(c, h) ==
    {InvalidSig} \cup
    (IF ChainIssuerData(c, h.TrustChainSignature).err # NoErr THEN {}
     ELSE {Ed25519Sign(k, Bytes(ChainIssuerData(c, h.TrustChainSignature).dat)) :
              k \in {"handler", "other"}})

DoSetChainUserTrustSignature(t, p, sig) ==
    /\ Len(SetChainUserTrustSignature(tok[t], tok[p], sig).TrustChainSignature) <= MaxTcsLen
    /\ tok' = [tok EXCEPT ![t] = SetChainUserTrustSignature(tok[t], tok[p], sig)]
    /\ ret' = NoRet

\* The characters a tampered signature may carry: lowercase digits, an
\* uppercase digit and no digit.
TamperChars == {"0", "f", "A", "X"}

\* A holder changes one character of the TrustChainSignature of an org-issued
\* token that verifies under anchor key pk.
Tamper(t, pk, i, ch) ==
    /\ i <= Len(tok[t].TrustChainSignature)
    /\ tok[t].TrustChainSignature[i] # ch
    /\ HasPrefix(tok[t].Issuer, OrgIssuerPrefix)
    /\ IsSignedByIssuer(tok[t], pk).ok
    /\ tok' = [tok EXCEPT ![t].TrustChainSignature = [@ EXCEPT ![i] = ch]]
    /\ ret' = NoRet

\* ----------------------------------------------------------- specification

\* The issuance protocol: a fresh handler and a fresh user, the mutators in any
\* order, and the calls that verify.
Init ==
    /\ \E iat \in {1, 2} :
          tok = [t \in Tokens |->
                    IF t = "handler" THEN NewClientIDClaims("handler", 1, 3)
                    ELSE [NewClientIDClaims("user", 1, 3) EXCEPT !.ID = KsuidAt(iat)]]
    /\ ret = NoRet

Next ==
    \/ \E k \in {"root", "other"} : DoSetOrgIssuer("user", k)
    \/ DoSetOrgIssuer("handler", "root")
    \/ DoSetChainIssuer("user", "handler")
    \/ \E t \in Tokens : \E sig \in OrgSignatures(tok[t]) :
          DoSetChainIssuerTrustSignature(t, sig)
    \/ \E sig \in ChainSignatures(tok["user"], tok["handler"]) :
          DoSetChainUserTrustSignature("user", "handler", sig)
    \/ \E pk \in AnchorKeys : CallIsSignedByIssuer("user", pk)
    \/ \E t \in Tokens : \E verify \in BOOLEAN : CallIsChainedIssuer(t, verify)
    \/ \E sig \in {tok["handler"].TrustChainSignature, <<"x">>} :
          CallChainIssuerData("user", sig)
    \/ \E t \in Tokens : CallOrgIssuerChainData(t)

Spec == Init /\ [][Next]_vars

\* The user as an org issuer k issues it: SetOrgIssuer(Pub(k)), then k's
\* signature over OrgIssuerChainData() as its TrustChainSignature.
OrgIssued(c, k) ==
    SetChainIssuerTrustSignature(SetOrgIssuer(c, Pub(k)),
        Ed25519Sign(k, Bytes(OrgIssuerChainData(c).dat)))

\* Tampering: an org-issued token that verifies, one character of its
\* TrustChainSignature changed once, and the verifier called on it.
InitTamper ==
    /\ \E k \in {"root", "other"} : \E iat \in {1, 2} : \E subject \in {"user", "handler"} :
          tok = [t \in Tokens |->
                    IF t = "handler" THEN IssuedHandler
                    ELSE OrgIssued(NewClientIDClaims(subject, iat, 3), k)]
    /\ ret = NoRet

NextTamper ==
    \/ \E pk \in AnchorKeys : \E i \in 1..MaxTcsLen : \E ch \in TamperChars :
          Tamper("user", pk, i, ch)
    \/ \E pk \in AnchorKeys : CallIsSignedByIssuer("user", pk)

SpecTamper == InitTamper /\ [][NextTamper]_vars

\* The same digits in upper case, which hex.DecodeString reads as well.
Upper(s) ==
    [i \in 1..Len(s) |->
        IF \E j \in 1..16 : HexDigits[j] = s[i]
        THEN UpperHexDigits[CHOOSE j \in 1..16 : HexDigits[j] = s[i]]
        ELSE s[i]]

\* The user as the chain issuer h issues it with the private key of pair k:
\* SetChainIssuer(h), k's signature over ChainIssuerData(h.TrustChainSignature),
\* SetChainUserTrustSignature(h, signature).
ChainIssued(c, h, k) ==
    LET u == SetChainIssuer(c, h).c
    IN  SetChainUserTrustSignature(u, h,
            Ed25519Sign(k, Bytes(ChainIssuerData(u, h.TrustChainSignature).dat)))

\* Field values a holder of a claims value may assign, as the tests do.
FieldIDs == {EmptyStr, <<"x">>, KsuidAt(1), KsuidAt(2)}

FieldPublicKeys == {EmptyStr, HexEncode(Pub("user"))}

FieldIssuedAt == {NilDate, 0, 1}

FieldExpiresAt == {NilDate, 0, 3}

FieldIssuers ==
    { EmptyStr,
      <<"X", "-", "x">>,
      OrgIssuerPrefix \o HexEncode(Pub("root")),
      OrgIssuerPrefix \o Upper(HexEncode(Pub("root"))),
      OrgIssuerPrefix,
      OrgIssuerPrefix \o <<"a", "b">>,
      OrgIssuerPrefix \o <<"x", ".", "x">>,
      ChainIssuerPrefix \o Dotted(IssuedHandler.ID, IssuedHandler.PublicKey),
      ChainIssuerPrefix \o <<"x">>,
      ChainIssuerPrefix \o <<".", "x">>,
      ChainIssuerPrefix \o <<"y", ".">>,
      ChainIssuerPrefix \o <<"!", ".", "y">>,
      ChainIssuerPrefix \o <<"a", ".", "b", ".", "c">>,
      ChainIssuerPrefix \o <<"x", ".", "a", "b">> }

\* TrustChainSignature values for a token with the given ID and PublicKey: the
\* malformed ones of the tests, and what the issuers of the model would sign.
FieldSignatures(id, pubk) ==
    LET c == Claims(id, pubk, 1, 3)
        h == IssuedHandler
    IN  { EmptyStr,
          <<"X">>,
          <<".">>,
          <<"f", "0", ".", "!", "!">>,
          <<"a", "b">>,
          <<"f", "0", ".", "0", "a">>,
          OrgIssued(c, "root").TrustChainSignature,
          OrgIssued(c, "other").TrustChainSignature,
          ChainIssued(c, h, "handler").TrustChainSignature,
          ChainIssued(c, h, "other").TrustChainSignature,
          Dotted(h.TrustChainSignature, h.TrustChainSignature) }

\* Field-level inputs: a claims value with every field drawn from the values
\* above, and the calls made on it.
InitFields ==
    /\ \E id \in FieldIDs : \E pubk \in FieldPublicKeys :
       \E iat \in FieldIssuedAt : \E exp \in FieldExpiresAt :
       \E iss \in FieldIssuers : \E tcs \in FieldSignatures(id, pubk) :
          tok = [t \in Tokens |->
                    IF t = "handler" THEN IssuedHandler
                    ELSE [Claims(id, pubk, iat, exp) EXCEPT
                             !.Issuer = iss, !.TrustChainSignature = tcs]]
    /\ ret = NoRet

NextFields ==
    \/ \E pk \in AnchorKeys : CallIsSignedByIssuer("user", pk)
    \/ \E t \in Tokens : \E verify \in BOOLEAN : CallIsChainedIssuer(t, verify)
    \/ \E sig \in {tok["handler"].TrustChainSignature, <<"x">>} :
          CallChainIssuerData("user", sig)
    \/ CallOrgIssuerChainData("user")

SpecFields == InitFields /\ [][NextFields]_vars

\* ------------------------------------------------------------------ claims

User == tok["user"]

Handler == tok["handler"]

\* The last call was IsSignedByIssuer(pk) on the user.
SignedCall(pk) == ret.op = "IsSignedByIssuer" /\ ret.t = "user" /\ ret.pk = pk

\* The user's identifier is a time-ordered identifier made at its IssuedAt, and
\* its expiry is set.
BoundID(c) ==
    /\ c.ID # EmptyStr /\ c.PublicKey # EmptyStr
    /\ KsuidValid(c.ID) /\ KsuidTime(c.ID) = c.IssuedAt
    /\ c.IssuedAt > 0 /\ c.ExpiresAt > 0

\* The two-hop scenario: the root issued the handler, the handler issued the user.
TwoHopIssued ==
    /\ Handler = IssuedHandler
    /\ BoundID(User)
    /\ User = ChainIssued(User, Handler, "handler")

\* C1: after the two-hop issuance, IsSignedByIssuer(hPub) on the client returns
\* valid = true, the handler's public key as the resolved signer key, and no error.
C1_TwoHopRoundTrip ==
    (TwoHopIssued /\ SignedCall(Pub("handler")))
        => (ret.ok /\ ret.key = Pub("handler") /\ ret.err = NoErr)

\* What the code does return in the two-hop scenario, for every anchor key: true
\* and no error.
TwoHopValid ==
    (TwoHopIssued /\ ret.op = "IsSignedByIssuer" /\ ret.t = "user")
        => (ret.ok /\ ret.err = NoErr)

\* The two-hop scenario was verified with the handler's key.
TwoHopVerified == TwoHopIssued /\ SignedCall(Pub("handler"))

\* The org issuer k issued the user: SetOrgIssuer(Pub(k)) and k's signature over
\* OrgIssuerChainData() as TrustChainSignature.
OrgRoundTrip(k) ==
    /\ BoundID(User)
    /\ User = OrgIssued(User, k)

\* C2: after the org-issuer round trip with the pair (pub, priv),
\* IsSignedByIssuer(pub) returns valid = true, pub as the resolved signer key, and
\* no error.
C2_OrgRoundTrip ==
    \A k \in KeyPairs :
        (OrgRoundTrip(k) /\ SignedCall(Pub(k)))
            => (ret.ok /\ ret.key = Pub(k) /\ ret.err = NoErr)

\* What the code does return after the org-issuer round trip: true and no error.
OrgRoundTripValid ==
    \A k \in KeyPairs :
        (OrgRoundTrip(k) /\ SignedCall(Pub(k))) => (ret.ok /\ ret.err = NoErr)

OrgRoundTripVerified == OrgRoundTrip("root") /\ SignedCall(Pub("root"))

\* The eight checks the specification lists, in its order: the error of the
\* first one a claims value violates.
ListedPrecondition(c) ==
    IF c.Issuer = EmptyStr THEN "no issuer set"
    ELSE IF c.PublicKey = EmptyStr THEN "no public key set"
    ELSE IF c.TrustChainSignature = EmptyStr THEN "no trust chain signature set"
    ELSE IF c.IssuedAt = NilDate \/ c.IssuedAt = 0 THEN "no issued time set"
    ELSE IF c.ExpiresAt = NilDate \/ c.ExpiresAt = 0 THEN "no expires set"
    ELSE IF c.ID = EmptyStr THEN "id not set"
    ELSE IF ~KsuidValid(c.ID) THEN "invalid ksuid format"
    ELSE IF KsuidTime(c.ID) # c.IssuedAt THEN "id is not based on issued time"
    ELSE NoErr

\* C3: IsSignedByIssuer reports the first violated of the eight listed checks
\* (Issuer, PublicKey, TrustChainSignature, IssuedAt, ExpiresAt, ID, identifier
\* format, identifier time), with valid = false, and looks at the Issuer prefix
\* only when all eight pass.
C3_PreconditionOrder ==
    (ret.op = "IsSignedByIssuer" /\ ret.t = "user" /\ ListedPrecondition(User) # NoErr)
        => (~ret.ok /\ ret.err = ListedPrecondition(User))

\* The part of the order the code implements: of Issuer, PublicKey,
\* TrustChainSignature and ID the first one empty is reported.
ImplementedOrder ==
    (ret.op = "IsSignedByIssuer" /\ ret.t = "user" /\ Preconditions(User) # NoErr)
        => (~ret.ok /\ ret.err = Preconditions(User))

\* C4: a token whose ID decodes to a time other than IssuedAt fails with the
\* identifier-time mismatch for every anchor key, and is never valid.
C4_IdentifierBinding ==
    (/\ ret.op = "IsSignedByIssuer" /\ ret.t = "user"
     /\ ListedPrecondition(User) = "id is not based on issued time")
        => (~ret.ok /\ ret.err = "id is not based on issued time")

\* The signature the org issuer k stores on c: hex(sign(priv, OrgIssuerChainData())).
OriginalSignature(c, k) ==
    HexEncode(Ed25519Sign(k, Bytes(Dotted(c.ID, c.PublicKey))))

\* s is t with exactly one character changed.
OneByteChanged(s, t) ==
    Len(s) = Len(t) /\ Cardinality({i \in 1..Len(s) : s[i] # t[i]}) = 1

\* The user is the org-issuer round-trip token of k with one character of its
\* TrustChainSignature changed.
Tampered(k) ==
    /\ User.ID # EmptyStr /\ User.PublicKey # EmptyStr
    /\ User.Issuer = OrgIssuerPrefix \o HexEncode(Pub(k))
    /\ OneByteChanged(User.TrustChainSignature, OriginalSignature(User, k))

\* C5 as stated: with any one character of the TrustChainSignature of the valid
\* org-issued token changed to any other value, IsSignedByIssuer(pub) returns
\* valid = false, no resolved key and no error.
C5_TamperIsSilent ==
    \A k \in KeyPairs :
        (Tampered(k) /\ SignedCall(Pub(k)))
            => (~ret.ok /\ ret.key = NilKey /\ ret.err = NoErr)

\* C5, amended: with one character changed, IsSignedByIssuer(pub) resolves no key
\* and returns valid = false with no error when the string still decodes as
\* hexadecimal to another signature, valid = false with the signature-encoding
\* error when it no longer decodes, and valid = true when only the case of a
\* hexadecimal letter changed (the decoded signature is the same).
C5_TamperAmended ==
    \A k \in KeyPairs :
        (Tampered(k) /\ SignedCall(Pub(k)))
            => /\ ret.key = NilKey
               /\ IF ~HexDecodeOk(User.TrustChainSignature)
                  THEN ~ret.ok /\ ret.err = "invalid trust chain signature: encoding/hex"
                  ELSE IF HexDecode(User.TrustChainSignature)
                              = HexDecode(OriginalSignature(User, k))
                  THEN ret.ok /\ ret.err = NoErr
                  ELSE ~ret.ok /\ ret.err = NoErr

\* A tampered signature that still decodes was verified: false, no error.
C5_Witness ==
    \E k \in KeyPairs :
        /\ Tampered(k) /\ SignedCall(Pub(k))
        /\ HexDecodeOk(User.TrustChainSignature)
        /\ ~ret.ok /\ ret.err = NoErr

\* The claims value passes the checks made before the dispatch and is a
\* well-formed chain-issued token: Issuer is C- and two non-empty parts with a
\* hex key, TrustChainSignature is two non-empty parts, the second one hex.
ChainWellFormed(c) ==
    /\ c.Issuer # EmptyStr /\ c.PublicKey # EmptyStr
    /\ c.TrustChainSignature # EmptyStr /\ c.ID # EmptyStr
    /\ HasPrefix(c.Issuer, ChainIssuerPrefix)
    /\ LET ip == Split(SubSeq(c.Issuer, 3, Len(c.Issuer)))
           tp == Split(c.TrustChainSignature)
       IN  /\ Len(ip) = 2 /\ ip[1] # EmptyStr /\ ip[2] # EmptyStr /\ HexDecodeOk(ip[2])
           /\ Len(tp) = 2 /\ tp[1] # EmptyStr /\ tp[2] # EmptyStr /\ HexDecodeOk(tp[2])

\* The second part of TrustChainSignature is the creator's signature over
\* ID "." parentChainSignature.
CreatorSigned(c) ==
    LET tp == Split(c.TrustChainSignature)
    IN  \E k \in KeyPairs :
           /\ Pub(k) = CreatorKey(c)
           /\ HexDecode(tp[2]) = Ed25519Sign(k, Bytes(Dotted(c.ID, tp[1])))

\* C6 as stated: a well-formed chain-issued token whose signature does not verify
\* under the creator key makes IsSignedByIssuer return valid = false, no resolved
\* key and the invalid-chain-signature error.
C6_ChainFailureIsError ==
    (/\ ret.op = "IsSignedByIssuer" /\ ret.t = "user"
     /\ ChainWellFormed(User) /\ ~CreatorSigned(User))
        => (~ret.ok /\ ret.key = NilKey /\ ret.err = "invalid chain signature")

\* C6, amended: the same when the creator key decoded from Issuer has the size of
\* a public key; with a key of another size IsSignedByIssuer returns valid = false
\* and the error of the failed validation instead.
C6_ChainFailureAmended ==
    (/\ ret.op = "IsSignedByIssuer" /\ ret.t = "user"
     /\ ChainWellFormed(User) /\ ~CreatorSigned(User))
        => /\ ~ret.ok /\ ret.key = NilKey
           /\ ret.err = IF Len(CreatorKey(User)) = KeySize
                        THEN "invalid chain signature"
                        ELSE "chain signature validation failed"

\* A well-formed token of the handler, signed by another key, was verified.
C6_Witness ==
    /\ ret.op = "IsSignedByIssuer" /\ ret.t = "user"
    /\ ChainWellFormed(User) /\ ~CreatorSigned(User)
    /\ CreatorKey(User) = Pub("handler")
    /\ User.TrustChainSignature = ChainIssued(User, Handler, "other").TrustChainSignature
    /\ ret.err = "invalid chain signature"

\* C7: a token that passes the checks made before the dispatch, with an Issuer
\* that starts with I- and is not I- followed by the lowercase hex of the anchor
\* key, makes IsSignedByIssuer return valid = false and the key-mismatch error,
\* whatever its TrustChainSignature is.
C7_AnchorMismatch ==
    \A pk \in AnchorKeys :
        (/\ SignedCall(pk)
         /\ User.Issuer # EmptyStr /\ User.PublicKey # EmptyStr
         /\ User.TrustChainSignature # EmptyStr /\ User.ID # EmptyStr
         /\ HasPrefix(User.Issuer, OrgIssuerPrefix)
         /\ User.Issuer # OrgIssuerPrefix \o HexEncode(pk))
            => (~ret.ok /\ ret.key = NilKey /\ ret.err = "public keys do not match")

\* A token the root issued and signed was verified with another anchor key.
C7_Witness ==
    /\ SignedCall(Pub("other"))
    /\ BoundID(User)
    /\ User.Issuer = OrgIssuerPrefix \o HexEncode(Pub("root"))
    /\ User.TrustChainSignature = OriginalSignature(User, "root")
    /\ ret.err = "public keys do not match"

\* C8: on a token whose Issuer starts with C-, IsSignedByIssuer returns the same
\* validity, resolved key and error for every anchor key, and on success the
\* resolved key is the creator key decoded from Issuer.
C8_AnchorIndependent ==
    (ret.op = "IsSignedByIssuer" /\ ret.t = "user"
        /\ HasPrefix(User.Issuer, ChainIssuerPrefix))
        => /\ \A pk \in AnchorKeys :
                 IsSignedByIssuer(User, pk) = [ok |-> ret.ok, err |-> ret.err]
           /\ ret.ok => ret.key = CreatorKey(User)

\* The part of C8 the code does: validity and error do not depend on the anchor.
ChainAnchorIndependent ==
    (ret.op = "IsSignedByIssuer" /\ ret.t = "user"
        /\ HasPrefix(User.Issuer, ChainIssuerPrefix))
        => \A pk \in AnchorKeys :
              IsSignedByIssuer(User, pk) = [ok |-> ret.ok, err |-> ret.err]

\* The number of dots of a string.
Dots(s) == Cardinality({i \in 1..Len(s) : s[i] = "."})

\* s is two non-empty parts with one dot between them.
TwoNonEmptyParts(s) ==
    Dots(s) = 1 /\ s[1] # "." /\ s[Len(s)] # "."

\* C9 as stated: ChainIssuerData returns ID "." parentChainSignature when ID is
\* not empty and Issuer is C- and two non-empty dot-separated parts; otherwise no
\* data and the first of: id not set, issuer not set, invalid issuer prefix,
\* invalid issuer data.
C9_ChainIssuerData ==
    (ret.op = "ChainIssuerData" /\ ret.t = "user")
        => LET e == IF User.ID = EmptyStr THEN "id not set"
                    ELSE IF User.Issuer = EmptyStr THEN "issuer not set"
                    ELSE IF ~HasPrefix(User.Issuer, ChainIssuerPrefix)
                    THEN "invalid issuer prefix"
                    ELSE IF ~TwoNonEmptyParts(SubSeq(User.Issuer, 3, Len(User.Issuer)))
                    THEN "invalid issuer data"
                    ELSE NoErr
           IN  /\ ret.err = e
               /\ ret.dat = IF e = NoErr THEN User.ID \o <<".">> \o ret.arg ELSE EmptyStr

\* C9, amended: the same with "C- and exactly two dot-separated parts" (exactly
\* one dot after C-), either of which may be empty: "C-.x" and "C-x." give the data,
\* "C-x" and "C-a.b.c" the invalid-issuer-data error.
C9_ChainIssuerDataAmended ==
    (ret.op = "ChainIssuerData" /\ ret.t = "user")
        => LET e == IF User.ID = EmptyStr THEN "id not set"
                    ELSE IF User.Issuer = EmptyStr THEN "issuer not set"
                    ELSE IF ~HasPrefix(User.Issuer, ChainIssuerPrefix)
                    THEN "invalid issuer prefix"
                    ELSE IF Dots(SubSeq(User.Issuer, 3, Len(User.Issuer))) # 1
                    THEN "invalid issuer data"
                    ELSE NoErr
           IN  /\ ret.err = e
               /\ ret.dat = IF e = NoErr THEN User.ID \o <<".">> \o ret.arg ELSE EmptyStr

\* ChainIssuerData was called on a token the handler stamped, and gave the data.
C9_Witness ==
    /\ ret.op = "ChainIssuerData" /\ ret.t = "user"
    /\ User.Issuer = SetChainIssuer(User, Handler).c.Issuer
    /\ ret.arg = Handler.TrustChainSignature
    /\ ret.err = NoErr
    /\ ret.dat = User.ID \o <<".">> \o Handler.TrustChainSignature

\* C10: IsChainedIssuer(verify) surfaces no error; it is false when
\* TrustChainSignature is empty or Issuer lacks the I- prefix; true for
\* verify = false when that shape matches; for verify = true, true exactly when in
\* addition ID and PublicKey are not empty, the rest of Issuer and
\* TrustChainSignature decode as hex and the signature is the one of the key in
\* Issuer over ID "." PublicKey.  IsChainedIssuer(true) implies
\* IsChainedIssuer(false), and the handler the root issued satisfies
\* IsChainedIssuer(true).
C10_IsChainedIssuer ==
    (ret.op = "IsChainedIssuer")
        => LET c     == tok[ret.t]
               shape == c.TrustChainSignature # EmptyStr
                           /\ HasPrefix(c.Issuer, OrgIssuerPrefix)
               rest  == SubSeq(c.Issuer, 3, Len(c.Issuer))
               good  == /\ shape
                        /\ c.ID # EmptyStr /\ c.PublicKey # EmptyStr
                        /\ HexDecodeOk(rest) /\ HexDecodeOk(c.TrustChainSignature)
                        /\ \E k \in KeyPairs :
                              /\ Pub(k) = HexDecode(rest)
                              /\ HexDecode(c.TrustChainSignature)
                                    = Ed25519Sign(k, Bytes(Dotted(c.ID, c.PublicKey)))
           IN  /\ ret.err = NoErr
               /\ ~shape => ~ret.ok
               /\ (shape /\ ~ret.verify) => ret.ok
               /\ ret.verify => (ret.ok <=> good)
               /\ IsChainedIssuer(c, TRUE) => IsChainedIssuer(c, FALSE)
               /\ (c = IssuedHandler /\ ret.verify) => ret.ok

\* IsChainedIssuer(true) was called on the handler the root issued, and is true.
C10_Witness ==
    /\ ret.op = "IsChainedIssuer" /\ ret.t = "handler" /\ ret.verify
    /\ Handler = IssuedHandler
    /\ ret.ok

\* C11: IssuerExpiresAt is set only on a claims value whose Issuer carries the C-
\* prefix, whatever mutators were called on it (SetOrgIssuer after SetChainIssuer
\* included), and after a successful SetChainIssuer(parent) it is the parent's
\* ExpiresAt.
C11_IssuerExpiresAtOnlyChain ==
    /\ \A t \in DOMAIN tok :
          tok[t].IssuerExpiresAt # NilDate => HasPrefix(tok[t].Issuer, ChainIssuerPrefix)
    /\ (ret.op = "SetChainIssuer" /\ ret.t = "user" /\ ret.ok)
          => User.IssuerExpiresAt = Handler.ExpiresAt

\* The part of C11 the code does: a successful SetChainIssuer(handler) leaves the
\* handler's ExpiresAt as IssuerExpiresAt, under the C- issuer of the handler.
IssuerExpiryCopied ==
    (ret.op = "SetChainIssuer" /\ ret.t = "user" /\ ret.ok)
        => /\ User.IssuerExpiresAt = Handler.ExpiresAt
           /\ User.Issuer = ChainIssuerPrefix \o Dotted(Handler.ID, Handler.PublicKey)

\* An org-issued claims value that still carries the expiry of a chain issuer.
StaleIssuerExpiry ==
    HasPrefix(User.Issuer, OrgIssuerPrefix) /\ User.IssuerExpiresAt = Handler.ExpiresAt

\* ------------------------------------------------------- delegation depth

\* The handler, a user the handler may issue, and a client that the handler or
\* the user may issue.
DepthTokens == {"handler", "user", "client"}

\* The tokens a holder may use as the parent of the client.
Parents == {"handler", "user"}

\* The signatures parent h may store on token c: none, bytes that are nobody's
\* signature, or one of the handler's or the user's key over
\* ChainIssuerData(h.TrustChainSignature).
DepthSignatures(c, h) ==
    {EmptyStr, InvalidSig} \cup
    (IF ChainIssuerData(c, h.TrustChainSignature).err # NoErr THEN {}
     ELSE {Ed25519Sign(k, Bytes(ChainIssuerData(c, h.TrustChainSignature).dat)) :
              k \in {"handler", "user"}})

\* The keys a verifier may hold as anchor of the client.
DepthAnchorKeys == AnchorKeys \cup {Pub("user")}

\* The handler new or issued by the org issuer, the user and the client new.
InitDepth ==
    /\ \E h \in {NewClientIDClaims("handler", 1, 3), IssuedHandler} :
          tok = [t \in DepthTokens |->
                    IF t = "handler" THEN h ELSE NewClientIDClaims(t, 2, 3)]
    /\ ret = NoRet

NextDepth ==
    \/ DoSetChainIssuer("user", "handler")
    \/ \E sig \in ChainSignatures(tok["user"], tok["handler"]) :
          DoSetChainUserTrustSignature("user", "handler", sig)
    \/ \E p \in Parents : DoSetChainIssuer("client", p)
    \/ \E p \in Parents : \E sig \in DepthSignatures(tok["client"], tok[p]) :
          DoSetChainUserTrustSignature("client", p, sig)
    \/ \E pk \in DepthAnchorKeys : CallIsSignedByIssuer("client", pk)

SpecDepth == InitDepth /\ [][NextDepth]_vars

Client == tok["client"]

\* s is hex.EncodeToString of some bytes.
IsHexEncoding(s) ==
    Len(s) % 2 = 0 /\ \A i \in 1..Len(s) : \E d \in 1..16 : HexDigits[d] = s[i]

\* parentChainSignature "." hex(sig): the TrustChainSignature of a chain-issued
\* client.
ChainForm(s) == Dots(s) >= 1

\* The client carries what SetChainIssuer(p) and SetChainUserTrustSignature(p, sig)
\* leave for some sig, and p is a chain-issued client or has no
\* TrustChainSignature.
DeepIssued(p) ==
    /\ p \in DOMAIN tok /\ "client" \in DOMAIN tok
    /\ tok[p].TrustChainSignature = EmptyStr \/ ChainForm(tok[p].TrustChainSignature)
    /\ Client.Issuer = ChainIssuerPrefix \o Dotted(tok[p].ID, tok[p].PublicKey)
    /\ Client.IssuerExpiresAt = tok[p].ExpiresAt
    /\ HasPrefix(Client.TrustChainSignature, tok[p].TrustChainSignature \o <<".">>)
    /\ IsHexEncoding(SubSeq(Client.TrustChainSignature,
                            Len(tok[p].TrustChainSignature) + 2,
                            Len(Client.TrustChainSignature)))

\* The last call was IsSignedByIssuer on the client.
ClientCall == ret.op = "IsSignedByIssuer" /\ ret.t = "client"

\* C12: a client issued through SetChainIssuer(parent) and
\* SetChainUserTrustSignature(parent, sig), by a parent that is itself a
\* chain-issued client or has an empty TrustChainSignature, is valid under no
\* anchor key: IsSignedByIssuer fails with "invalid trust chain signature".
C12_DepthLimited ==
    (ClientCall /\ \E p \in Parents : DeepIssued(p))
        => (~ret.ok /\ ret.err = "invalid trust chain signature")

\* The org issuer issued the handler, the handler the user, the user the client,
\* each with its own key, and the client was verified with the user's key.
C12_Witness ==
    /\ ClientCall /\ ret.pk = Pub("user")
    /\ Handler = IssuedHandler
    /\ User = ChainIssued(User, Handler, "handler")
    /\ Client = ChainIssued(Client, User, "user")
    /\ DeepIssued("user")
    /\ ret.err = "invalid trust chain signature"

\* The depth the verifier accepts: the client the issued handler issued with its
\* own key is valid under every anchor key.
DepthTwoValid ==
    (ClientCall /\ Handler = IssuedHandler /\ Client = ChainIssued(Client, Handler, "handler"))
        => (ret.ok /\ ret.err = NoErr)

\* A client issued by a parent without TrustChainSignature, then verified.
EmptyParentIssued ==
    ClientCall /\ DeepIssued("handler") /\ Handler.TrustChainSignature = EmptyStr

====
